---- MODULE Spec2Model ----
\* fundingmonitor: the aggregator (internal/usecase MultiExchangeUseCase), the
\* file log (internal/infrastructure FileLogger) and the background scheduler
\* (startBackgroundLogging), modelled as one state machine.
\*
\* Text is modelled as a sequence of tokens (strings): a token is a literal of
\* the format string, a formatted value, or "\n".  A file's content is the
\* sequence of the tokens written to it.
EXTENDS Integers, Sequences, FiniteSets, TLC

\* ---------------------------------------------------------------- bounds --
MaxTime == 2            \* the clock runs over 0..MaxTime
MaxRounds == 2          \* scheduler rounds started in one behaviour
MaxClientCalls == 3     \* on-demand calls started in one behaviour
MaxAppends == 2         \* direct LogFundingRates calls in one behaviour
MaxFaults == 1          \* faults injected in one behaviour
MaxScanLines == 3       \* lines of a day-file found on disk at the start
MaxWriters == 2         \* LogFundingRates calls that run side by side
MaxReads == 1           \* GetSymbolLogs calls that run beside them

\* ------------------------------------------------------- program constants
TicksPerDay == 2        \* clock ticks in one calendar day of the model
TickerBuffer == 1       \* capacity of time.Ticker's channel

\* ------------------------------------------------------------- the world --
Names == {"alpha", "beta"}          \* keys of MultiExchangeUseCase.exchanges
OtherNames == {"gamma"}             \* a name that is not registered
Symbols == {"BTC", "ETH"}

ErrNil == "nil"
ErrExchangeNotFound == "exchange not found"
ErrLogFileNotFound == "log file not found"
ErrSource == "source error"
ErrMkdir == "failed to create directory for "
ErrOpen == "failed to open log file for "
ErrWrite == "failed to write rate to log file for "
ErrReadDir == "readdir error"

EmptyFn == [z \in {} |-> z]

\* domain.FundingRate; FundingRate in units of 10^-7, prices in units of 10^-3,
\* Timestamp the instant of capture (0 unless set with At)
Rate(sym, ex, fr, mp, ip) ==
    [Symbol |-> sym, Exchange |-> ex, FundingRate |-> fr,
     MarkPrice |-> mp, IndexPrice |-> ip, Timestamp |-> 0]

\* the observation captured at instant t
At(rate, t) == [rate EXCEPT !.Timestamp = t]

\* ExchangeRepository.GetName of the source registered under key n
GetName(n) == IF n = "beta" THEN "Beta" ELSE n

\* what ExchangeRepository.GetFundingRates of the source registered under n
\* can return: an error, or one of a few lists of rates
Responses(n) ==
    IF n = "alpha"
    THEN { [err |-> ErrSource, rates |-> <<>>],
           [err |-> ErrNil, rates |-> << Rate("BTC", GetName(n), 16, 240, 244),
                                         Rate("ETH", GetName(n), -4, 0, 0) >>] }
    ELSE { [err |-> ErrSource, rates |-> <<>>],
           [err |-> ErrNil, rates |-> << Rate("BTC", GetName(n), -3080, 236, 0) >>] }

\* ------------------------------------------------------------ formatting --
Abs(i) == IF i < 0 THEN -i ELSE i

\* fmt's %.Nf on a value held in units ten (%.6f) or ten (%.2f) times finer
\* than the last printed digit: rounds to nearest, keeps the sign
RoundDiv(v, d) == (Abs(v) + (d \div 2)) \div d

Digits(v, d) == (IF v < 0 THEN "-" ELSE "") \o ToString(RoundDiv(v, d))

\* "%.6f" of rate.FundingRate: the text names millionths
F6(v) == Digits(v, 10) \o "e-6"

\* "%.2f" of a price: the text names hundredths
F2(v) == Digits(v, 10) \o "e-2"

\* time.Now().Format("2006-01-02 15:04:05")
TsStr(t) == "ts" \o ToString(t)

\* time.Now().Format("02-01-2006"): the day of instant t, as DD-MM-YYYY
DayOf(t) == t \div TicksPerDay

\* the calendar day with number d, as the digits of its year, month and day:
\* day 0 is 2024-12-31, day d > 0 is 2025-01-0d
Calendar(d) ==
    IF d = 0
    THEN [Y |-> << "2", "0", "2", "4" >>, M |-> << "1", "2" >>, D |-> << "3", "1" >>]
    ELSE [Y |-> << "2", "0", "2", "5" >>, M |-> << "0", "1" >>, D |-> << "0", ToString(d) >>]

\* the days the clock can show
Days == 0..DayOf(MaxTime + 1)

\* Format("02-01-2006") of a day: the text DD-MM-YYYY, character by character
DMY(d) == Calendar(d).D \o << "-" >> \o Calendar(d).M \o << "-" >> \o Calendar(d).Y

\* a day written as YYYY-MM-DD
YMD(d) == Calendar(d).Y \o << "-" >> \o Calendar(d).M \o << "-" >> \o Calendar(d).D

\* variant of RateLine: the provider line of the two-line block format, which
\* leaves the timestamp and the instrument to a header line
RateLine_indented(timestamp, symbol, rate) ==
    << " ", " ", "Exchange", ": ", rate.Exchange, ",", " ",
       "Funding Rate", ": ", F6(rate.FundingRate), ",", " ",
       "Mark Price", ": ", F2(rate.MarkPrice), ",", " ",
       "Index Price", ": ", F2(rate.IndexPrice), "\n" >>

\* variant of RateLine: the line names the instrument of the rate
RateLine_ofrate(timestamp, symbol, rate) ==
    << "[", TsStr(timestamp), "]", " ", "Symbol", ": ", rate.Symbol, ",", " ",
       "Exchange", ": ", rate.Exchange, ",", " ",
       "Funding Rate", ": ", F6(rate.FundingRate), ",", " ",
       "Mark Price", ": ", F2(rate.MarkPrice), ",", " ",
       "Index Price", ": ", F2(rate.IndexPrice), "\n" >>

\* fmt.Sprintf("[%s] Symbol: %s, Exchange: %s, Funding Rate: %.6f, Mark Price: %.2f, Index Price: %.2f\n", ...)
RateLine(timestamp, symbol, rate) ==
    << "[", TsStr(timestamp), "]", " ", "Symbol", ": ", symbol, ",", " ",
       "Exchange", ": ", rate.Exchange, ",", " ",
       "Funding Rate", ": ", F6(rate.FundingRate), ",", " ",
       "Mark Price", ": ", F2(rate.MarkPrice), ",", " ",
       "Index Price", ": ", F2(rate.IndexPrice), "\n" >>

\* variant of RateLines: the lines are written without their newline
RECURSIVE RateLines_nonewline(_, _, _)
RateLines_nonewline(timestamp, symbol, rates) ==
    IF rates = <<>> THEN <<>>
    ELSE LET l == RateLine(timestamp, symbol, Head(rates))
         IN SubSeq(l, 1, Len(l) - 1) \o RateLines_nonewline(timestamp, symbol, Tail(rates))

RECURSIVE RateLines(_, _, _)
RateLines(timestamp, symbol, rates) ==
    IF rates = <<>> THEN <<>>
    ELSE RateLine(timestamp, symbol, Head(rates)) \o RateLines(timestamp, symbol, Tail(rates))

\* --------------------------------------------------------- string helpers --
\* strings.HasPrefix(s, p)
HasPrefix(s, p) == Len(s) >= Len(p) /\ SubSeq(s, 1, Len(p)) = p

\* strings.Index(s, p): 1-based position of the first occurrence, 0 if none
Index(s, p) ==
    LET hits == { i \in 1..(Len(s) - Len(p) + 1) : SubSeq(s, i, i + Len(p) - 1) = p }
    IN IF hits = {} THEN 0 ELSE CHOOSE i \in hits : \A j \in hits : i <= j

\* strings.Contains(s, p)
Contains(s, p) == Index(s, p) # 0

\* strings.Count(s, p) for a pattern that cannot overlap itself
Count(s, p) ==
    Cardinality({ i \in 1..(Len(s) - Len(p) + 1) : SubSeq(s, i, i + Len(p) - 1) = p })

\* strings.Split(s, sep) for a one-token separator
RECURSIVE Split(_, _)
Split(s, sep) ==
    LET i == Index(s, <<sep>>)
    IN IF i = 0 THEN << s >>
       ELSE << SubSeq(s, 1, i - 1) >> \o Split(SubSeq(s, i + 1, Len(s)), sep)

\* strings.TrimSpace(s)
RECURSIVE TrimLeft(_)
TrimLeft(s) == IF s # <<>> /\ Head(s) \in {" ", "\n"} THEN TrimLeft(Tail(s)) ELSE s

RECURSIVE TrimRight(_)
TrimRight(s) ==
    IF s # <<>> /\ s[Len(s)] \in {" ", "\n"} THEN TrimRight(SubSeq(s, 1, Len(s) - 1)) ELSE s

TrimSpace(s) == TrimRight(TrimLeft(s))

\* ------------------------------------------------------------------ state --
VARIABLES
    now,        \* the wall clock
    dirs,       \* the instrument directories under logDir
    files,      \* path <<symbol, day name>> -> content of the day-file
    appendLog,  \* history: the LogFundingRates calls made so far
    calls,      \* call id -> the aggregator call in progress (0: the client, 1..: rounds)
    ticker,     \* number of ticks buffered in ticker.C
    schedPc,    \* where the goroutine of startBackgroundLogging is
    started,    \* rounds started so far
    nClient,    \* on-demand calls started so far
    ret,        \* what the last finished on-demand call returned
    nFaults,    \* faults injected so far
    lastRound,  \* what the last finished LogAllFundingRates did and returned
    writers,    \* the LogFundingRates calls that run side by side, step by step
    reader      \* the os.ReadFile of a GetSymbolLogs call that runs beside them

vars == << now, dirs, files, appendLog, calls, ticker, schedPc, started, nClient, ret, nFaults,
           lastRound, writers, reader >>

Client == 0
WriterIds == 1..MaxWriters

NoWriter == [pc |-> "idle", symbol |-> "", path |-> <<>>, timestamp |-> 0,
             rates |-> <<>>, todo |-> <<>>]

NoReader == [pc |-> "idle", symbol |-> "", date |-> <<>>, path |-> <<>>, data |-> <<>>]
CallIds == 0..MaxRounds

NoCall == [kind |-> "none", phase |-> "", todo |-> {}, cur |-> "", late |-> FALSE,
           allRates |-> <<>>, got |-> EmptyFn, invoked |-> <<>>, info |-> EmptyFn,
           logTodo |-> {}, logged |-> <<>>]

Init ==
    /\ now = 0
    /\ dirs = {}
    /\ files = EmptyFn
    /\ appendLog = <<>>
    /\ calls = [c \in CallIds |-> NoCall]
    /\ ticker = 0
    /\ schedPc = "select"
    /\ started = 0
    /\ nClient = 0
    /\ ret = [seq |-> 0, op |-> "none"]
    /\ nFaults = 0
    /\ lastRound = [id |-> 0]
    /\ writers = [w \in WriterIds |-> NoWriter]
    /\ reader = NoReader

\* ------------------------------------------------------------- FileLogger --
Path(symbol, date) == << symbol, date >>

\* variant of WriteAppend: the file is opened with O_TRUNC
WriteAppend_trunc(fs, path, text) ==
    [p \in (DOMAIN fs) \cup {path} |-> IF p = path THEN text ELSE fs[p]]

\* os.OpenFile(O_APPEND|O_CREATE) then WriteString: the file holds what it
\* held, followed by the tokens written
WriteAppend(fs, path, text) ==
    [p \in (DOMAIN fs) \cup {path} |->
        (IF p \in DOMAIN fs THEN fs[p] ELSE <<>>) \o (IF p = path THEN text ELSE <<>>)]

FailModes == {"none", "mkdir", "open", "write"}

\* variant of LogFundingRates: a WriteString that fails takes back the lines
\* the call wrote before it
LogFundingRates_rollback(ds, fs, symbol, rates, t1, t2, fail, k) ==
    IF fail = "mkdir"
    THEN [dirs |-> ds, files |-> fs, err |-> ErrMkdir \o symbol, written |-> 0]
    ELSE LET ds2 == ds \cup {symbol}
             path == Path(symbol, DMY(DayOf(t1)))
         IN IF fail = "open"
            THEN [dirs |-> ds2, files |-> fs, err |-> ErrOpen \o symbol, written |-> 0]
            ELSE IF fail = "write" /\ k \in 1..Len(rates)
                 THEN [dirs |-> ds2, files |-> WriteAppend(fs, path, <<>>),
                       err |-> ErrWrite \o symbol, written |-> k - 1]
                 ELSE [dirs |-> ds2,
                       files |-> WriteAppend(fs, path, RateLines(t2, symbol, rates)),
                       err |-> ErrNil, written |-> Len(rates)]

\* FileLogger.LogFundingRates(symbol, rates): dateStr is read from the clock
\* at t1 and timestamp at t2; fail names the system call that fails, k the
\* line whose WriteString fails.  Gives the directory tree left and the error.
LogFundingRates(ds, fs, symbol, rates, t1, t2, fail, k) ==
    IF fail = "mkdir"
    THEN [dirs |-> ds, files |-> fs, err |-> ErrMkdir \o symbol, written |-> 0]
    ELSE LET ds2 == ds \cup {symbol}
             path == Path(symbol, DMY(DayOf(t1)))
         IN IF fail = "open"
            THEN [dirs |-> ds2, files |-> fs, err |-> ErrOpen \o symbol, written |-> 0]
            ELSE IF fail = "write" /\ k \in 1..Len(rates)
                 THEN [dirs |-> ds2,
                       files |-> WriteAppend(fs, path, RateLines(t2, symbol, SubSeq(rates, 1, k - 1))),
                       err |-> ErrWrite \o symbol, written |-> k - 1]
                 ELSE [dirs |-> ds2,
                       files |-> WriteAppend(fs, path, RateLines(t2, symbol, rates)),
                       err |-> ErrNil, written |-> Len(rates)]

\* the record of one LogFundingRates call kept in appendLog
AppendRecord(symbol, rates, t1, t2, r) ==
    [symbol |-> symbol, rates |-> rates, day |-> DayOf(t1), ts |-> t2,
     err |-> r.err, written |-> r.written]

\* the text of a date argument <<form, day>>: form "ymd" is the day written
\* YYYY-MM-DD, "dmy" the day written DD-MM-YYYY, "bad" the text 2025-02-3d,
\* which has the shape YYYY-MM-DD and names no day
DateText(date) ==
    IF date[1] = "ymd" THEN YMD(date[2])
    ELSE IF date[1] = "dmy" THEN DMY(date[2])
    ELSE << "2", "0", "2", "5", "-", "0", "2", "-", "3", ToString(date[2]) >>

\* time.Parse("2006-01-02", s)
ParseYMD(s) ==
    IF \E d \in Days : YMD(d) = s
    THEN [ok |-> TRUE, day |-> CHOOSE d \in Days : YMD(d) = s]
    ELSE [ok |-> FALSE, day |-> 0]

\* variant of NormalizeDate: the date is used as it was given
NormalizeDate_asis(date) == DateText(date)

\* "if len(date) == 10 && date[4] == '-' && date[7] == '-'": a date of the
\* shape YYYY-MM-DD that parses is rewritten as DD-MM-YYYY
NormalizeDate(date) ==
    LET s == DateText(date)
    IN IF Len(s) = 10 /\ s[5] = "-" /\ s[8] = "-" /\ ParseYMD(s).ok
       THEN DMY(ParseYMD(s).day)
       ELSE s

ReadModes == {"none", "read"}

\* variant of GetSymbolLogs: a day-file that does not exist reads as empty
GetSymbolLogs_empty(fs, symbol, date, fail) ==
    LET path == Path(symbol, NormalizeDate(date))
    IN IF fail = "none"
       THEN [val |-> IF path \in DOMAIN fs THEN fs[path] ELSE <<>>, err |-> ErrNil]
       ELSE [val |-> <<>>, err |-> ErrLogFileNotFound]

\* FileLogger.GetSymbolLogs(symbol, date); fail = "read" when os.ReadFile fails
\* on a file that exists
GetSymbolLogs(fs, symbol, date, fail) ==
    LET path == Path(symbol, NormalizeDate(date))
    IN IF path \in DOMAIN fs /\ fail = "none"
       THEN [val |-> fs[path], err |-> ErrNil]
       ELSE [val |-> <<>>, err |-> ErrLogFileNotFound]

\* the order of two characters of a file name
CharRank(ch) ==
    CHOOSE i \in 1..11 : << "-", "0", "1", "2", "3", "4", "5", "6", "7", "8", "9" >>[i] = ch

\* a < b for two texts of the same length, compared as strings are
LexLess(a, b) ==
    \E i \in 1..Len(a) :
        /\ CharRank(a[i]) < CharRank(b[i])
        /\ \A j \in 1..(i - 1) : a[j] = b[j]

\* os.ReadDir and filepath.Walk visit the entries of a directory sorted by
\* file name: the days in ds, in the order of their names DD-MM-YYYY.log
RECURSIVE SortedDays(_)
SortedDays(ds) ==
    IF ds = {} THEN <<>>
    ELSE LET d == CHOOSE x \in ds : \A y \in ds \ {x} : LexLess(DMY(x), DMY(y))
         IN << d >> \o SortedDays(ds \ {d})

\* the instrument directories, in the order of their names
SymbolOrder == << "BTC", "ETH" >>

DaysOf(fs, symbol) == { d \in Days : Path(symbol, DMY(d)) \in DOMAIN fs }

\* variant of LogFileOf: the size is not taken from the file
LogFileOf_nosize(fs, symbol, d) == [Symbol |-> symbol, Date |-> DMY(d), Size |-> 0]

\* the domain.LogFile of the day-file logDir/symbol/DD-MM-YYYY.log
LogFileOf(fs, symbol, d) ==
    [Symbol |-> symbol, Date |-> DMY(d), Size |-> Len(fs[Path(symbol, DMY(d))])]

\* the walk below the directories syms, in order
RECURSIVE WalkDirs(_, _)
WalkDirs(fs, syms) ==
    IF syms = <<>> THEN <<>>
    ELSE LET days == SortedDays(DaysOf(fs, Head(syms)))
         IN [i \in DOMAIN days |-> LogFileOf(fs, Head(syms), days[i])]
            \o WalkDirs(fs, Tail(syms))

\* FileLogger.GetAllLogs(): one domain.LogFile per file symbol/date.log that
\* filepath.Walk finds, in the order of the walk
GetAllLogs(fs) == [val |-> WalkDirs(fs, SymbolOrder), err |-> ErrNil]

\* ---------------------------------------------------------------- parsing --
MaxNum == 600           \* largest number a formatted value names

\* the texts "%.6f" can produce, with the value each one reads back as (in
\* units of 10^-7): fmt.Sscanf(frStr, "%f", &fr)
NumTable6 ==
    { << ToString(n) \o "e-6", 10 * n >> : n \in 0..MaxNum } \cup
    { << "-" \o ToString(n) \o "e-6", -10 * n >> : n \in 0..MaxNum }

\* fmt.Sscanf(frStr, "%f", &fr) with the error ignored: fr stays 0 when the
\* text does not start with a number
Sscanf(frStr) ==
    IF frStr # <<>> /\ \E e \in NumTable6 : e[1] = Head(frStr)
    THEN (CHOOSE e \in NumTable6 : e[1] = Head(frStr))[2]
    ELSE 0

\* time.Parse("2006-01-02 15:04:05", tsStr) followed by ts.Unix()
ParseTime(tsStr) ==
    IF Len(tsStr) = 1 /\ \E t \in 0..(MaxTime + 1) : TsStr(t) = tsStr[1]
    THEN [ok |-> TRUE, unix |-> CHOOSE t \in 0..(MaxTime + 1) : TsStr(t) = tsStr[1]]
    ELSE [ok |-> FALSE, unix |-> 0]

\* the inner loop over the parts of one provider line
RECURSIVE ScanParts(_, _)
ScanParts(parts, currentTimestamp) ==
    IF parts = <<>> THEN <<>>
    ELSE LET part == TrimSpace(Head(parts))
             here == IF HasPrefix(part, << "Funding Rate", ": " >>)
                     THEN << [Timestamp |-> currentTimestamp,
                              FundingRate |-> Sscanf(SubSeq(part, 3, Len(part)))] >>
                     ELSE <<>>
         IN here \o ScanParts(Tail(parts), currentTimestamp)

\* the loop over the lines of one file, carrying currentTimestamp
RECURSIVE ScanLines(_, _, _)
ScanLines(lines, currentTimestamp, exchange) ==
    IF lines = <<>> THEN <<>>
    ELSE LET line == Head(lines)
         IN IF HasPrefix(line, << "[" >>) /\ Contains(line, << "]", " ", "Symbol", ": " >>)
            THEN LET endIdx == Index(line, << "]" >>)
                     ts == ParseTime(SubSeq(line, 2, endIdx - 1))
                     next == IF endIdx > 2 /\ ts.ok THEN ts.unix ELSE currentTimestamp
                 IN ScanLines(Tail(lines), next, exchange)
            ELSE IF Contains(line, << "Exchange", ": ", exchange, "," >>)
                 THEN ScanParts(Split(line, ","), currentTimestamp)
                      \o ScanLines(Tail(lines), currentTimestamp, exchange)
                 ELSE ScanLines(Tail(lines), currentTimestamp, exchange)

RECURSIVE ScanFiles(_, _, _, _)
ScanFiles(fs, symbol, days, exchange) ==
    IF days = <<>> THEN <<>>
    ELSE ScanLines(Split(fs[Path(symbol, DMY(Head(days)))], "\n"), 0, exchange)
         \o ScanFiles(fs, symbol, Tail(days), exchange)

\* FileLogger.GetHistoricalFundingRates(symbol, exchange)
GetHistoricalFundingRates(ds, fs, symbol, exchange) ==
    IF symbol \notin ds
    THEN [val |-> <<>>, err |-> ErrReadDir]
    ELSE [val |-> ScanFiles(fs, symbol, SortedDays(DaysOf(fs, symbol)), exchange),
          err |-> ErrNil]

\* --------------------------------------------------- MultiExchangeUseCase --
\* variant of Stamp: a rate keeps the name its source reported
Stamp_keep(name, rates) == rates

\* "for i := range rates { rates[i].Exchange = name }"
Stamp(name, rates) == [i \in DOMAIN rates |-> [rates[i] EXCEPT !.Exchange = name]]

\* variant of AfterFetch: a source that fails is given a placeholder rate
AfterFetch_placeholder(allRates, name, resp) ==
    IF resp.err # ErrNil THEN allRates \o << Rate("BTC", name, 0, 0, 0) >>
    ELSE allRates \o Stamp(name, resp.rates)

\* variant of AfterFetch: a source's error discards what was collected so far
AfterFetch_abort(allRates, name, resp) ==
    IF resp.err # ErrNil THEN <<>>
    ELSE allRates \o Stamp(name, resp.rates)

\* one pass of the loop body of GetAllFundingRates for the source registered
\* under name, whose GetFundingRates returned resp: what allRates is afterwards
AfterFetch(allRates, name, resp) ==
    IF resp.err # ErrNil THEN allRates
    ELSE allRates \o Stamp(name, resp.rates)

\* "return allRates, nil"
GetAllFundingRatesErr == ErrNil

\* variant of GroupBySymbol: an instrument keeps its last observation only
GroupBySymbol_last(allRates) ==
    [s \in { allRates[i].Symbol : i \in DOMAIN allRates } |->
        LET of == SelectSeq(allRates, LAMBDA r : r.Symbol = s)
        IN << of[Len(of)] >>]

\* "symbolRates[rate.Symbol] = append(symbolRates[rate.Symbol], rate)"
GroupBySymbol(allRates) ==
    [s \in { allRates[i].Symbol : i \in DOMAIN allRates } |->
        SelectSeq(allRates, LAMBDA r : r.Symbol = s)]

\* the call record of a GetAllFundingRates, GetExchangeInfo or
\* LogAllFundingRates that has just been entered: the loop over m.exchanges
\* has every registered name still to visit
NewCall(kind) == [NoCall EXCEPT !.kind = kind, !.phase = "loop", !.todo = Names]

ClientIdle == calls[Client].kind = "none" /\ nClient < MaxClientCalls

UnchangedLog == UNCHANGED << now, dirs, files, appendLog, nFaults >>
UnchangedSched == UNCHANGED << ticker, schedPc, started, lastRound >>
UnchangedConc == UNCHANGED << writers, reader >>

\* ---- the client enters GetAllFundingRates or GetExchangeInfo
ClientBegin(kind) ==
    /\ ClientIdle
    /\ calls' = [calls EXCEPT ![Client] = NewCall(kind)]
    /\ nClient' = nClient + 1
    /\ UNCHANGED ret
    /\ UnchangedLog /\ UnchangedSched /\ UnchangedConc

\* ---- "for name, exchange := range m.exchanges" in GetAllFundingRates: the
\* loop takes the next name (map order is not specified) and calls
\* exchange.GetFundingRates(), which blocks the loop until it returns
\* variant of MayFetch: the next source is called without waiting for the last
MayFetch_nowait(call) == call.todo # {}

MayFetch(call) == call.cur = "" /\ call.todo # {}

FetchInvoke(c) ==
    /\ calls[c].kind \in {"collect", "round"}
    /\ calls[c].phase = "loop"
    /\ MayFetch(calls[c])
    /\ \E n \in calls[c].todo :
         calls' = [calls EXCEPT ![c].cur = n, ![c].todo = @ \ {n},
                                ![c].invoked = Append(@, n)]
    /\ UNCHANGED << nClient, ret >>
    /\ UnchangedLog /\ UnchangedSched /\ UnchangedConc

\* ---- "for name, exchange := range m.exchanges" in GetExchangeInfo: the loop
\* takes the next name and calls exchange.IsHealthy(), which blocks the loop
\* until it returns
\* variant of MayProbe: the next probe is made without waiting for the last
MayProbe_nowait(call) == call.todo # {}

MayProbe(call) == call.cur = "" /\ call.todo # {}

ProbeInvoke(c) ==
    /\ calls[c].kind = "status"
    /\ calls[c].phase = "loop"
    /\ MayProbe(calls[c])
    /\ \E n \in calls[c].todo :
         calls' = [calls EXCEPT ![c].cur = n, ![c].todo = @ \ {n},
                                ![c].invoked = Append(@, n)]
    /\ UNCHANGED << nClient, ret >>
    /\ UnchangedLog /\ UnchangedSched /\ UnchangedConc

\* ---- the deadline a caller would give the source passes while the source
\* has not returned
DeadlineExpires(c) ==
    /\ calls[c].cur # ""
    /\ ~calls[c].late
    /\ calls' = [calls EXCEPT ![c].late = TRUE]
    /\ UNCHANGED << nClient, ret >>
    /\ UnchangedLog /\ UnchangedSched /\ UnchangedConc

\* ---- exchange.GetFundingRates() returns into the loop of GetAllFundingRates
FetchReturn(c) ==
    /\ calls[c].kind \in {"collect", "round"}
    /\ calls[c].cur # ""
    /\ \E resp \in Responses(calls[c].cur) :
         calls' = [calls EXCEPT
                     ![c].allRates = AfterFetch(@, calls[c].cur, resp),
                     ![c].got = (calls[c].cur :> resp) @@ @,
                     ![c].cur = "", ![c].late = FALSE]
    /\ UNCHANGED << nClient, ret >>
    /\ UnchangedLog /\ UnchangedSched /\ UnchangedConc

\* what a source returns when the exchange sent it a ticker without a symbol:
\* the clients copy the fields of the tickers as they come
UncheckedResponses(n) ==
    { [err |-> ErrNil, rates |-> << Rate("BTC", GetName(n), 16, 240, 244),
                                    Rate("", GetName(n), 5, 0, 0) >>] }

\* ---- exchange.GetFundingRates() returns such rates into the loop; the
\* exchange's lapse counts as one of the faults of the behaviour
FetchReturnUnchecked(c) ==
    /\ calls[c].kind \in {"collect", "round"}
    /\ calls[c].cur # ""
    /\ nFaults < MaxFaults
    /\ nFaults' = nFaults + 1
    /\ \E resp \in UncheckedResponses(calls[c].cur) :
         calls' = [calls EXCEPT
                     ![c].allRates = AfterFetch(@, calls[c].cur, resp),
                     ![c].got = (calls[c].cur :> resp) @@ @,
                     ![c].cur = "", ![c].late = FALSE]
    /\ UNCHANGED << nClient, ret, now, dirs, files, appendLog >>
    /\ UnchangedSched /\ UnchangedConc

\* ---- exchange.IsHealthy() returns into the loop of GetExchangeInfo
\* variant of InfoEntry: the entry is named by the map key
InfoEntry_key(name, healthy) == [Name |-> name, Healthy |-> healthy]

InfoEntry(name, healthy) == [Name |-> GetName(name), Healthy |-> healthy]

ProbeReturn(c) ==
    /\ calls[c].kind = "status"
    /\ calls[c].cur # ""
    /\ \E healthy \in BOOLEAN :
         calls' = [calls EXCEPT
                     ![c].info = (calls[c].cur :> InfoEntry(calls[c].cur, healthy)) @@ @,
                     ![c].got = (calls[c].cur :> healthy) @@ @,
                     ![c].cur = "", ![c].late = FALSE]
    /\ UNCHANGED << nClient, ret >>
    /\ UnchangedLog /\ UnchangedSched /\ UnchangedConc

LoopDone(call) == call.phase = "loop" /\ call.cur = "" /\ call.todo = {}

\* ---- GetAllFundingRates returns to the client
GetAllFundingRatesReturn ==
    /\ calls[Client].kind = "collect"
    /\ LoopDone(calls[Client])
    /\ ret' = [seq |-> nClient, op |-> "GetAllFundingRates",
               val |-> calls[Client].allRates, err |-> GetAllFundingRatesErr,
               got |-> calls[Client].got, invoked |-> calls[Client].invoked]
    /\ calls' = [calls EXCEPT ![Client] = NoCall]
    /\ UNCHANGED nClient
    /\ UnchangedLog /\ UnchangedSched /\ UnchangedConc

\* ---- GetExchangeInfo returns to the client
GetExchangeInfoReturn ==
    /\ calls[Client].kind = "status"
    /\ LoopDone(calls[Client])
    /\ ret' = [seq |-> nClient, op |-> "GetExchangeInfo",
               val |-> calls[Client].info, err |-> ErrNil,
               got |-> calls[Client].got, invoked |-> calls[Client].invoked,
               prev |-> IF ret.op = "GetExchangeInfo" THEN ret.val ELSE EmptyFn]
    /\ calls' = [calls EXCEPT ![Client] = NoCall]
    /\ UNCHANGED nClient
    /\ UnchangedLog /\ UnchangedSched /\ UnchangedConc

\* variant of ExchangeFundingRates: the source's error is dropped
ExchangeFundingRates_swallow(exchangeName, resp) ==
    IF exchangeName \notin Names
    THEN [val |-> <<>>, err |-> ErrExchangeNotFound, invoked |-> <<>>]
    ELSE [val |-> resp.rates, err |-> ErrNil, invoked |-> << exchangeName >>]

\* GetExchangeFundingRates(exchangeName), resp being what the source returns
\* when it is called: the value and error returned, and the sources called
ExchangeFundingRates(exchangeName, resp) ==
    IF exchangeName \notin Names
    THEN [val |-> <<>>, err |-> ErrExchangeNotFound, invoked |-> <<>>]
    ELSE [val |-> resp.rates, err |-> resp.err, invoked |-> << exchangeName >>]

\* ---- GetExchangeFundingRates(exchangeName)
GetExchangeFundingRates(exchangeName) ==
    /\ ClientIdle
    /\ nClient' = nClient + 1
    /\ \E resp \in (IF exchangeName \in Names THEN Responses(exchangeName)
                                             ELSE {[err |-> ErrNil, rates |-> <<>>]}) :
         LET r == ExchangeFundingRates(exchangeName, resp)
         IN ret' = [seq |-> nClient + 1, op |-> "GetExchangeFundingRates",
                    arg |-> exchangeName, val |-> r.val, err |-> r.err,
                    invoked |-> r.invoked, resp |-> resp]
    /\ UNCHANGED calls
    /\ UnchangedLog /\ UnchangedSched /\ UnchangedConc

\* ---------------------------------------------------- on-demand log calls --
\* the rate lists a direct caller of LogFundingRates passes
ClientRateLists ==
    { << Rate("BTC", "alpha", 1000, 5004, 5000), Rate("BTC", "beta", -3080, 236, 0) >>,
      << At(Rate("BTC", "alpha", 16, 240, 244), 1), At(Rate("ETH", "beta", 4, 0, 0), 1) >> }

\* the observations passed to a call were captured before the call
Captured(rates) == \A i \in DOMAIN rates : rates[i].Timestamp <= now

\* the clock readings a call that starts at now can make later on
Later == { t \in {now, now + 1} : t <= MaxTime }

\* ---- LogFundingRates(symbol, rates) called directly
LogFundingRatesCall(symbol, rates) ==
    /\ ClientIdle
    /\ Len(appendLog) < MaxAppends
    /\ Captured(rates)
    /\ nClient' = nClient + 1
    /\ \E t2 \in Later, fail \in FailModes, k \in 1..Len(rates) :
         LET r == LogFundingRates(dirs, files, symbol, rates, now, t2, fail, k)
         IN /\ (fail = "write" \/ k = 1)
            /\ (fail # "none" => nFaults < MaxFaults)
            /\ nFaults' = nFaults + (IF fail = "none" THEN 0 ELSE 1)
            /\ dirs' = r.dirs
            /\ files' = r.files
            /\ now' = t2
            /\ appendLog' = Append(appendLog, AppendRecord(symbol, rates, now, t2, r))
            /\ ret' = [seq |-> nClient + 1, op |-> "LogFundingRates", symbol |-> symbol,
                       rates |-> rates, day |-> DayOf(now), ts |-> t2, err |-> r.err]
    /\ UNCHANGED calls
    /\ UnchangedSched /\ UnchangedConc

\* the day arguments a caller passes to GetSymbolLogs
DateArgs == { << form, d >> : form \in {"dmy", "ymd", "bad"}, d \in 0..DayOf(MaxTime) }

\* ---- GetSymbolLogs(symbol, date)
GetSymbolLogsCall(symbol, date) ==
    /\ ClientIdle
    /\ nClient' = nClient + 1
    /\ \E fail \in ReadModes :
         LET r == GetSymbolLogs(files, symbol, date, fail)
         IN /\ fail # "none" =>
                 nFaults < MaxFaults /\ Path(symbol, NormalizeDate(date)) \in DOMAIN files
            /\ nFaults' = nFaults + (IF fail = "none" THEN 0 ELSE 1)
            /\ ret' = [seq |-> nClient + 1, op |-> "GetSymbolLogs", symbol |-> symbol,
                       date |-> date, fail |-> fail, val |-> r.val, err |-> r.err]
    /\ UNCHANGED << calls, now, dirs, files, appendLog >>
    /\ UnchangedSched /\ UnchangedConc

\* ---- GetAllLogs()
GetAllLogsCall ==
    /\ ClientIdle
    /\ nClient' = nClient + 1
    /\ LET r == GetAllLogs(files)
       IN ret' = [seq |-> nClient + 1, op |-> "GetAllLogs", val |-> r.val, err |-> r.err]
    /\ UNCHANGED calls
    /\ UnchangedLog /\ UnchangedSched /\ UnchangedConc

\* ---- GetHistoricalFundingRates(symbol, exchange)
GetHistoricalFundingRatesCall(symbol, exchange) ==
    /\ ClientIdle
    /\ nClient' = nClient + 1
    /\ LET r == GetHistoricalFundingRates(dirs, files, symbol, exchange)
       IN ret' = [seq |-> nClient + 1, op |-> "GetHistoricalFundingRates", symbol |-> symbol,
                  exchange |-> exchange, val |-> r.val, err |-> r.err]
    /\ UNCHANGED calls
    /\ UnchangedLog /\ UnchangedSched /\ UnchangedConc

\* --------------------------------------------------------- FundingHandler --
StatusOK == 200
StatusNotFound == 404
StatusInternalServerError == 500

\* variant of ExchangeFundingResponse: an error of the source is answered
\* with a success that has no rates
ExchangeFundingResponse_lenient(exchangeName, r) ==
    IF r.err = ErrExchangeNotFound
    THEN [status |-> StatusNotFound, body |-> "Exchange not found"]
    ELSE [status |-> StatusOK, body |-> [exchange |-> exchangeName, rates |-> r.val]]

\* FundingHandler.GetExchangeFunding: the response to what
\* GetExchangeFundingRates(exchangeName) returned
ExchangeFundingResponse(exchangeName, r) ==
    IF r.err # ErrNil
    THEN IF r.err = ErrExchangeNotFound
         THEN [status |-> StatusNotFound, body |-> "Exchange not found"]
         ELSE [status |-> StatusInternalServerError, body |-> "Failed to get funding rates: " \o r.err]
    ELSE [status |-> StatusOK, body |-> [exchange |-> exchangeName, rates |-> r.val]]

\* ---- GET /api/funding/{exchange}
HandlerGetExchangeFunding(exchangeName) ==
    /\ ClientIdle
    /\ nClient' = nClient + 1
    /\ \E resp \in (IF exchangeName \in Names THEN Responses(exchangeName)
                                             ELSE {[err |-> ErrNil, rates |-> <<>>]}) :
         LET r == ExchangeFundingRates(exchangeName, resp)
         IN ret' = [seq |-> nClient + 1, op |-> "FundingHandler.GetExchangeFunding",
                    arg |-> exchangeName, resp |-> resp, invoked |-> r.invoked,
                    http |-> ExchangeFundingResponse(exchangeName, r)]
    /\ UNCHANGED calls
    /\ UnchangedLog /\ UnchangedSched /\ UnchangedConc

\* strings.Split(s, sep) for a separator of several tokens
RECURSIVE SplitOn(_, _)
SplitOn(s, sep) ==
    LET i == Index(s, sep)
    IN IF i = 0 THEN << s >>
       ELSE << SubSeq(s, 1, i - 1) >> \o SplitOn(SubSeq(s, i + Len(sep), Len(s)), sep)

\* the texts "%.2f" can produce, with the value each one names, in units of 10^-7
NumTable2 ==
    { << ToString(n) \o "e-2", 100000 * n >> : n \in 0..MaxNum } \cup
    { << "-" \o ToString(n) \o "e-2", -100000 * n >> : n \in 0..MaxNum }

\* strconv.ParseFloat(value, 64); the number in units of 10^-7
ParseFloat(value) ==
    IF Len(value) = 1 /\ \E e \in NumTable6 \cup NumTable2 : e[1] = value[1]
    THEN [ok |-> TRUE, num |-> (CHOOSE e \in NumTable6 \cup NumTable2 : e[1] = value[1])[2]]
    ELSE [ok |-> FALSE, num |-> 0]

TextValue(value) == [kind |-> "text", text |-> value, num |-> 0]

NumberValue(num) == [kind |-> "number", text |-> <<>>, num |-> num]

\* variant of FieldValue: every value is kept as text
FieldValue_text(key, value) == TextValue(value)

\* "Convert numeric values": what entry[key] is set to
FieldValue(key, value) ==
    IF key \in { << "Funding Rate" >>, << "Mark Price" >>, << "Index Price" >> }
       /\ ParseFloat(value).ok
    THEN NumberValue(ParseFloat(value).num)
    ELSE TextValue(value)

\* entry[key] = value
Put(entry, key, value) ==
    [k \in (DOMAIN entry) \cup {key} |-> IF k = key THEN value ELSE entry[k]]

\* "for _, field := range fields" of parseLogLine
RECURSIVE ParseFields(_, _)
ParseFields(fields, entry) ==
    IF fields = <<>> THEN entry
    ELSE LET field == TrimSpace(Head(fields))
             i == Index(field, << ": " >>)
         IN IF i # 0
            THEN ParseFields(Tail(fields),
                             Put(entry, SubSeq(field, 1, i - 1),
                                 FieldValue(SubSeq(field, 1, i - 1),
                                            SubSeq(field, i + 1, Len(field)))))
            ELSE ParseFields(Tail(fields), entry)

\* parseLogLine(line): the entry of a line that holds a "]"
parseLogLine(line) ==
    LET timestampEnd == Index(line, << "]" >>)
        timestampStr == SubSeq(line, 2, timestampEnd - 1)
        dataPart == SubSeq(line, timestampEnd + 2, Len(line))
    IN ParseFields(SplitOn(dataPart, << ",", " " >>),
                   (<< "timestamp" >> :> TextValue(timestampStr)))

\* "for _, line := range lines" of parseLogContent
RECURSIVE ParseLines(_)
ParseLines(lines) ==
    IF lines = <<>> THEN <<>>
    ELSE LET line == TrimSpace(Head(lines))
         IN (IF line # <<>> /\ HasPrefix(line, << "[" >>)
                /\ Contains(line, << "]", " ", "Symbol", ": " >>)
             THEN << parseLogLine(line) >>
             ELSE <<>>)
            \o ParseLines(Tail(lines))

parseLogContent(content) == ParseLines(Split(content, "\n"))

\* FundingHandler.GetSymbolLogs: the response to what GetSymbolLogs returned
SymbolLogsResponse(symbol, date, r) ==
    IF r.err # ErrNil
    THEN IF r.err = ErrLogFileNotFound
         THEN [status |-> StatusNotFound, body |-> "Log file not found"]
         ELSE [status |-> StatusInternalServerError, body |-> "Failed to read log file"]
    ELSE LET logEntries == parseLogContent(r.val)
         IN [status |-> StatusOK,
             body |-> [symbol |-> symbol, date |-> DateText(date),
                       entries |-> logEntries, count |-> Len(logEntries)]]

\* ---- GET /api/logs/{symbol}?date=...
HandlerGetSymbolLogs(symbol, date) ==
    /\ ClientIdle
    /\ nClient' = nClient + 1
    /\ \E fail \in ReadModes :
         LET r == GetSymbolLogs(files, symbol, date, fail)
         IN /\ fail # "none" =>
                 nFaults < MaxFaults /\ Path(symbol, NormalizeDate(date)) \in DOMAIN files
            /\ nFaults' = nFaults + (IF fail = "none" THEN 0 ELSE 1)
            /\ ret' = [seq |-> nClient + 1, op |-> "FundingHandler.GetSymbolLogs",
                       symbol |-> symbol, date |-> date, fail |-> fail,
                       http |-> SymbolLogsResponse(symbol, date, r)]
    /\ UNCHANGED << calls, now, dirs, files, appendLog >>
    /\ UnchangedSched /\ UnchangedConc

\* ------------------------------------------------- startBackgroundLogging --
ActiveRounds == { c \in 1..MaxRounds : calls[c].kind = "round" }

\* ---- the ticker fires: the tick is buffered, or dropped when the buffer is full
Tick ==
    /\ ticker < TickerBuffer
    /\ ticker' = ticker + 1
    /\ UNCHANGED << schedPc, started, lastRound, calls, nClient, ret >>
    /\ UnchangedLog /\ UnchangedConc

\* variant of SchedulerReady: each tick is served by a goroutine of its own
SchedulerReady_spawn == TRUE

\* the goroutine is blocked in "select { case <-ticker.C: ... }"
SchedulerReady == schedPc = "select"

\* ---- "case <-ticker.C:" the goroutine takes a tick and calls
\* LogAllFundingRates, which enters GetAllFundingRates
SchedReceive ==
    /\ SchedulerReady
    /\ ticker > 0
    /\ started < MaxRounds
    /\ ticker' = ticker - 1
    /\ schedPc' = "round"
    /\ started' = started + 1
    /\ calls' = [calls EXCEPT ![started + 1] = NewCall("round")]
    /\ UNCHANGED << lastRound, nClient, ret >>
    /\ UnchangedLog /\ UnchangedConc

\* ---- GetAllFundingRates has returned into LogAllFundingRates: group by symbol
RoundGroup(c) ==
    /\ calls[c].kind = "round"
    /\ LoopDone(calls[c])
    /\ calls' = [calls EXCEPT ![c].phase = "log",
                              ![c].logTodo = DOMAIN GroupBySymbol(calls[c].allRates)]
    /\ UNCHANGED << nClient, ret >>
    /\ UnchangedLog /\ UnchangedSched /\ UnchangedConc

\* variant of AfterLog: an error of LogFundingRates ends the loop
AfterLog_abort(logTodo, symbol, err) == IF err # ErrNil THEN {} ELSE logTodo \ {symbol}

\* variant of AfterLog: an instrument whose LogFundingRates failed is tried again
AfterLog_retry(logTodo, symbol, err) == IF err # ErrNil THEN logTodo ELSE logTodo \ {symbol}

\* "if err := m.logRepo.LogFundingRates(symbol, rates); err != nil { continue }":
\* the instruments the loop has still to visit after the call for symbol
AfterLog(logTodo, symbol, err) == logTodo \ {symbol}

\* ---- "for symbol, rates := range symbolRates": one LogFundingRates call;
\* its error is dropped and the loop goes on
RoundLog(c) ==
    /\ calls[c].kind = "round"
    /\ calls[c].phase = "log"
    /\ \E symbol \in calls[c].logTodo, t2 \in Later, fail \in FailModes :
         LET rates == GroupBySymbol(calls[c].allRates)[symbol]
         IN \E k \in 1..Len(rates) :
              LET r == LogFundingRates(dirs, files, symbol, rates, now, t2, fail, k)
              IN /\ (fail = "write" \/ k = 1)
                 /\ (fail # "none" => nFaults < MaxFaults)
                 /\ nFaults' = nFaults + (IF fail = "none" THEN 0 ELSE 1)
                 /\ dirs' = r.dirs
                 /\ files' = r.files
                 /\ now' = t2
                 /\ appendLog' = Append(appendLog, AppendRecord(symbol, rates, now, t2, r))
                 /\ calls' = [calls EXCEPT
                                ![c].logTodo = AfterLog(@, symbol, r.err),
                                ![c].logged = Append(@, [symbol |-> symbol, rates |-> rates,
                                                         err |-> r.err])]
    /\ UNCHANGED << nClient, ret >>
    /\ UnchangedSched /\ UnchangedConc

\* ---- LogAllFundingRates returns nil; the goroutine is back at the select
RoundReturn(c) ==
    /\ calls[c].kind = "round"
    /\ calls[c].phase = "log"
    /\ calls[c].logTodo = {}
    /\ lastRound' = [id |-> c, err |-> ErrNil, allRates |-> calls[c].allRates,
                     got |-> calls[c].got, invoked |-> calls[c].invoked,
                     logged |-> calls[c].logged]
    /\ calls' = [calls EXCEPT ![c] = NoCall]
    /\ schedPc' = "select"
    /\ UNCHANGED << ticker, started, nClient, ret >>
    /\ UnchangedLog /\ UnchangedConc

\* ---- time passes
ClockAdvance ==
    /\ now < MaxTime
    /\ now' = now + 1
    /\ UNCHANGED << dirs, files, appendLog, nFaults, calls, nClient, ret >>
    /\ UnchangedSched /\ UnchangedConc

\* ------------------------------------- LogFundingRates, one system call at a time
\* ---- LogFundingRates up to the loop: MkdirAll, the file name from the clock,
\* OpenFile with O_APPEND|O_CREATE, the timestamp from the clock.  The calls
\* are numbered in the order in which they start.
WriterOpen(w, symbol, rates) ==
    /\ writers[w].pc = "idle"
    /\ \A v \in 1..(w - 1) : writers[v].pc # "idle"
    /\ Captured(rates)
    /\ \E t2 \in Later :
         LET path == Path(symbol, DMY(DayOf(now)))
         IN /\ dirs' = dirs \cup {symbol}
            /\ files' = WriteAppend(files, path, <<>>)
            /\ now' = t2
            /\ writers' = [writers EXCEPT ![w] =
                              [pc |-> "write", symbol |-> symbol, path |-> path,
                               timestamp |-> t2, rates |-> rates, todo |-> rates]]
    /\ UNCHANGED << appendLog, nFaults, calls, nClient, ret, reader >>
    /\ UnchangedSched

\* variant of WriteString: the line reaches the file in pieces, the first
\* piece in this call
WriteString_pieces(content, rateLine) == content \o SubSeq(rateLine, 1, Len(rateLine) \div 2)

\* file.WriteString(rateLine) on a file opened with O_APPEND: one write call,
\* which puts the whole line at the end the file has at that moment
WriteString(content, rateLine) == content \o rateLine

\* ---- one pass of "for _, rate := range rates": format a line, write it;
\* after the last line the call returns nil and the deferred Close runs
WriterWrite(w) ==
    /\ writers[w].pc = "write"
    /\ writers[w].todo # <<>>
    /\ files' = [files EXCEPT ![writers[w].path] =
                    WriteString(@, RateLine(writers[w].timestamp, writers[w].symbol,
                                            Head(writers[w].todo)))]
    /\ writers' = [writers EXCEPT ![w].todo = Tail(@),
                                  ![w].pc = IF Len(writers[w].todo) = 1 THEN "done" ELSE "write"]
    /\ UNCHANGED << now, dirs, appendLog, nFaults, calls, nClient, ret, reader >>
    /\ UnchangedSched

\* ---- GetSymbolLogs(symbol, date) up to the first read of os.ReadFile: the
\* file is opened, or is not there
ReaderOpen(symbol, date) ==
    /\ reader.pc = "idle"
    /\ nClient < MaxReads
    /\ nClient' = nClient + 1
    /\ LET path == Path(symbol, NormalizeDate(date))
       IN IF path \in DOMAIN files
          THEN /\ reader' = [pc |-> "read", symbol |-> symbol, date |-> date,
                             path |-> path, data |-> <<>>]
               /\ UNCHANGED ret
          ELSE /\ ret' = [seq |-> nClient + 1, op |-> "GetSymbolLogs", symbol |-> symbol,
                          date |-> date, fail |-> "none", val |-> <<>>,
                          err |-> ErrLogFileNotFound]
               /\ UNCHANGED reader
    /\ UNCHANGED << now, dirs, files, appendLog, nFaults, calls, writers >>
    /\ UnchangedSched

\* ---- one read of the loop of os.ReadFile: it takes what the file holds
\* beyond what was read so far; a read that finds nothing is the end of the
\* file, and GetSymbolLogs returns what was read
ReaderRead ==
    /\ reader.pc = "read"
    /\ LET rest == SubSeq(files[reader.path], Len(reader.data) + 1, Len(files[reader.path]))
       IN IF rest # <<>>
          THEN /\ reader' = [reader EXCEPT !.data = @ \o rest]
               /\ UNCHANGED ret
          ELSE /\ ret' = [seq |-> nClient, op |-> "GetSymbolLogs", symbol |-> reader.symbol,
                          date |-> reader.date, fail |-> "none", val |-> reader.data,
                          err |-> ErrNil]
               /\ reader' = NoReader
    /\ UNCHANGED << now, dirs, files, appendLog, nFaults, calls, nClient, writers >>
    /\ UnchangedSched

\* ------------------------------------------------------------------- Next --
\* the aggregator, called on demand
NextAgg ==
    \/ \E kind \in {"collect", "status"} : ClientBegin(kind)
    \/ FetchInvoke(Client)
    \/ ProbeInvoke(Client)
    \/ DeadlineExpires(Client)
    \/ FetchReturn(Client)
    \/ ProbeReturn(Client)
    \/ GetAllFundingRatesReturn
    \/ GetExchangeInfoReturn
    \/ \E n \in Names \cup OtherNames : GetExchangeFundingRates(n)

\* the file log, called on demand
NextLog ==
    \/ \E symbol \in Symbols, rates \in ClientRateLists : LogFundingRatesCall(symbol, rates)
    \/ \E symbol \in Symbols, date \in DateArgs : GetSymbolLogsCall(symbol, date)
    \/ GetAllLogsCall
    \/ \E symbol \in Symbols, exchange \in Names : GetHistoricalFundingRatesCall(symbol, exchange)
    \/ ClockAdvance

\* the background goroutine and its rounds
NextSched ==
    \/ Tick
    \/ SchedReceive
    \/ \E c \in 1..MaxRounds : FetchInvoke(c)
    \/ \E c \in 1..MaxRounds : FetchReturn(c)
    \/ \E c \in 1..MaxRounds : RoundGroup(c)
    \/ \E c \in 1..MaxRounds : RoundLog(c)
    \/ \E c \in 1..MaxRounds : RoundReturn(c)

\* ---- a log directory that holds a day-file written before the program
\* started: lines of the block format (a header line, then indented provider
\* lines), lines of the one-line format, and lines that are damaged
HeaderLine(t, symbol) == << "[", TsStr(t), "]", " ", "Symbol", ": ", symbol >>

ProviderLine(exchange, frText) ==
    << " ", " ", "Exchange", ": ", exchange, ",", " ", "Funding Rate", ": ", frText, ",", " ",
       "Mark Price", ": ", F2(5000), ",", " ", "Index Price", ": ", F2(5000) >>

ScanLinePool ==
    { HeaderLine(1, "BTC"),
      ProviderLine("alpha", F6(1000)),
      ProviderLine("beta", F6(-3080)),
      ProviderLine("alpha", "n/a"),
      SubSeq(ProviderLine("alpha", F6(1000)), 1, 8),
      << "garbage" >>,
      SubSeq(RateLine(2, "BTC", Rate("BTC", "alpha", 16, 240, 244)), 1, 27) }

\* the contents of a file of at most n lines from the pool, each line ended
\* by a newline
RECURSIVE ScanContents(_)
ScanContents(n) ==
    IF n = 0 THEN { <<>> }
    ELSE LET shorter == ScanContents(n - 1)
         IN shorter \cup { c \o l \o << "\n" >> : c \in shorter, l \in ScanLinePool }

InitScan ==
    /\ now = 0
    /\ dirs = {"BTC"}
    /\ files \in [ {Path("BTC", DMY(0))} -> ScanContents(MaxScanLines) ]
    /\ appendLog = <<>>
    /\ calls = [c \in CallIds |-> NoCall]
    /\ ticker = 0
    /\ schedPc = "select"
    /\ started = 0
    /\ nClient = 0
    /\ ret = [seq |-> 0, op |-> "none"]
    /\ nFaults = 0
    /\ lastRound = [id |-> 0]
    /\ writers = [w \in WriterIds |-> NoWriter]
    /\ reader = NoReader

\* GetHistoricalFundingRates called on such a directory
NextScan ==
    \E symbol \in Symbols, exchange \in Names : GetHistoricalFundingRatesCall(symbol, exchange)

\* LogFundingRates calls and a GetSymbolLogs call that run side by side
NextConc ==
    \/ \E w \in WriterIds, symbol \in Symbols, rates \in ClientRateLists : WriterOpen(w, symbol, rates)
    \/ \E w \in WriterIds : WriterWrite(w)
    \/ \E symbol \in Symbols, d \in 0..DayOf(MaxTime) : ReaderOpen(symbol, << "dmy", d >>)
    \/ ReaderRead

\* the rounds, with sources that pass on whatever the exchange sent
NextSchedAny ==
    \/ NextSched
    \/ \E c \in 1..MaxRounds : FetchReturnUnchecked(c)

\* the HTTP handlers, and the direct LogFundingRates calls that fill the log
NextHttp ==
    \/ \E n \in Names \cup OtherNames : HandlerGetExchangeFunding(n)
    \/ \E symbol \in Symbols, date \in DateArgs : HandlerGetSymbolLogs(symbol, date)
    \/ \E symbol \in Symbols, rates \in ClientRateLists : LogFundingRatesCall(symbol, rates)
    \/ ClockAdvance

SpecAgg == Init /\ [][NextAgg]_vars

SpecHttp == Init /\ [][NextHttp]_vars

SpecSchedAny == Init /\ [][NextSchedAny]_vars

SpecConc == Init /\ [][NextConc]_vars

SpecScan == InitScan /\ [][NextScan]_vars

SpecLog == Init /\ [][NextLog]_vars

SpecSched == Init /\ [][NextSched]_vars

TypeOK ==
    /\ now \in 0..MaxTime
    /\ ticker \in 0..TickerBuffer
    /\ schedPc \in {"select", "round"}
    /\ started \in 0..MaxRounds
    /\ nClient \in 0..MaxClientCalls
    /\ nFaults \in 0..MaxFaults

\* ================================================================= claims ==
Range(f) == { f[x] : x \in DOMAIN f }

\* the sources of a call whose fetch returned without an error
Succeeded(got) == { n \in DOMAIN got : got[n].err = ErrNil }

\* the rates of the sources that succeeded, each source's rates carrying the
\* name it is registered under, in the order the sources were visited
RECURSIVE UnionOfSuccessful(_, _)
UnionOfSuccessful(order, got) ==
    IF order = <<>> THEN <<>>
    ELSE LET n == Head(order)
         IN (IF n \in Succeeded(got)
             THEN [i \in DOMAIN got[n].rates |-> [got[n].rates[i] EXCEPT !.Exchange = n]]
             ELSE <<>>)
            \o UnionOfSuccessful(Tail(order), got)

\* the sources invoked by a call that have not returned yet
InFlight(call) == Range(call.invoked) \ DOMAIN call.got

\* C1: GetAllFundingRates, with K of the N registered sources failing for any
\* K in 0..N, returns exactly the observations of the N-K sources that
\* succeeded, nothing for a source that failed, and a nil error.
C1_CollectAllUnion ==
    ret.op = "GetAllFundingRates" =>
        /\ ret.err = ErrNil
        /\ DOMAIN ret.got = Names
        /\ ret.val = UnionOfSuccessful(ret.invoked, ret.got)
        /\ \A i \in DOMAIN ret.val : ret.val[i].Exchange \in Succeeded(ret.got)

\* one source failed (and was visited last), one succeeded
C1_Witness ==
    /\ ret.op = "GetAllFundingRates"
    /\ Cardinality(Succeeded(ret.got)) = 1
    /\ ret.invoked[Len(ret.invoked)] \notin Succeeded(ret.got)
    /\ Len(ret.val) > 0

\* C2: GetExchangeFundingRates with an unregistered name fails with
\* ErrExchangeNotFound and calls no source; with a registered name whose
\* source returns an error it fails with that error.
C2_CollectOneErrors ==
    ret.op = "GetExchangeFundingRates" =>
        /\ ret.arg \notin Names => (ret.err = ErrExchangeNotFound /\ ret.invoked = <<>>)
        /\ (ret.arg \in Names /\ ret.resp.err # ErrNil) =>
               (ret.err = ret.resp.err /\ ret.err # ErrNil)
        /\ (ret.arg \in Names /\ ret.resp.err = ErrNil) =>
               (ret.err = ErrNil /\ ret.val = ret.resp.rates)

\* a registered source was asked for by name and its fetch failed
C2_Witness ==
    /\ ret.op = "GetExchangeFundingRates"
    /\ ret.arg \in Names
    /\ ret.resp.err = ErrSource

\* C8 as stated: the sources of one GetAllFundingRates are fetched in
\* parallel, each under a deadline: no source waits for another's fetch, and
\* a fetch that has passed its deadline is not waited for.
C8_Original ==
    (calls[Client].kind = "collect" /\ calls[Client].cur # "") =>
        (calls[Client].todo = {} /\ ~calls[Client].late)

\* C8 amended: the sources of one GetAllFundingRates are fetched one at a
\* time: at most one fetch is in flight, a source is invoked only once every
\* source invoked before it has returned, and the call returns only when
\* every source has returned, the failed ones contributing nothing.
C8_SequentialFetch ==
    /\ calls[Client].kind = "collect" =>
         /\ Cardinality(InFlight(calls[Client])) <= 1
         /\ calls[Client].todo # {} =>
              Range(calls[Client].invoked) \ {calls[Client].cur} \subseteq DOMAIN calls[Client].got
    /\ ret.op = "GetAllFundingRates" =>
         /\ DOMAIN ret.got = Names
         /\ \A i \in DOMAIN ret.val : ret.val[i].Exchange \in Succeeded(ret.got)

\* a fetch has passed its deadline while another source has not been called
C8_Witness ==
    /\ calls[Client].kind = "collect"
    /\ calls[Client].late
    /\ calls[Client].todo # {}

\* C9 as stated: a liveness probe that hangs does not keep GetExchangeInfo
\* from probing the other sources.
C9_Original ==
    (calls[Client].kind = "status" /\ calls[Client].late) => calls[Client].todo = {}

\* C9 amended: GetExchangeInfo probes the sources one at a time: at most one
\* probe is in flight, the sources not yet visited have no entry while a probe
\* is awaited, and the call returns only when every probe has returned.
C9_SequentialProbe ==
    /\ calls[Client].kind = "status" =>
         /\ Cardinality(InFlight(calls[Client])) <= 1
         /\ DOMAIN calls[Client].info = DOMAIN calls[Client].got
         /\ calls[Client].todo \cap DOMAIN calls[Client].info = {}
         /\ calls[Client].todo # {} =>
              Range(calls[Client].invoked) \ {calls[Client].cur} \subseteq DOMAIN calls[Client].got
    /\ ret.op = "GetExchangeInfo" => DOMAIN ret.got = Names

\* a probe has passed the deadline while another source has not been probed
C9_Witness ==
    /\ calls[Client].kind = "status"
    /\ calls[Client].late
    /\ calls[Client].todo # {}

\* C10: GetExchangeInfo returns one entry per registered source, under its
\* registered name, holding the source's GetName and the result of the
\* IsHealthy call made during this call.
C10_StatusEntries ==
    ret.op = "GetExchangeInfo" =>
        /\ DOMAIN ret.val = Names
        /\ \A n \in Names :
             /\ ret.val[n].Name = GetName(n)
             /\ ret.val[n].Healthy = ret.got[n]

\* two calls in a row, the probe of a source answering differently in the second
C10_Witness ==
    /\ ret.op = "GetExchangeInfo"
    /\ ret.prev # EmptyFn
    /\ \E n \in Names : ret.prev[n].Healthy # ret.val[n].Healthy

\* ---- the file log
\* the LogFundingRates calls made for the day-file at path, oldest first
AppendsTo(path) ==
    SelectSeq(appendLog, LAMBDA a : Path(a.symbol, DMY(a.day)) = path /\ a.written > 0)

\* the LogFundingRates calls made for an instrument
AppendsFor(symbol) == SelectSeq(appendLog, LAMBDA a : a.symbol = symbol)

IsPrefixOf(s, t) == Len(s) <= Len(t) /\ SubSeq(t, 1, Len(s)) = s

\* the line of an observation in the one-line format
OneLine(ts, symbol, rate) ==
    << "[", TsStr(ts), "]", " ", "Symbol", ": ", symbol, ",", " ",
       "Exchange", ": ", rate.Exchange, ",", " ",
       "Funding Rate", ": ", F6(rate.FundingRate), ",", " ",
       "Mark Price", ": ", F2(rate.MarkPrice), ",", " ",
       "Index Price", ": ", F2(rate.IndexPrice), "\n" >>

\* the entry of one round in the block format: a header line, then one
\* indented line per observation
RECURSIVE ProviderLines(_)
ProviderLines(rates) ==
    IF rates = <<>> THEN <<>>
    ELSE << " ", " ", "Exchange", ": ", Head(rates).Exchange, ",", " ",
            "Funding Rate", ": ", F6(Head(rates).FundingRate), ",", " ",
            "Mark Price", ": ", F2(Head(rates).MarkPrice), ",", " ",
            "Index Price", ": ", F2(Head(rates).IndexPrice), "\n" >>
         \o ProviderLines(Tail(rates))

BlockEntry(ts, symbol, rates) ==
    << "[", TsStr(ts), "]", " ", "Symbol", ": ", symbol, "\n" >> \o ProviderLines(rates)

\* a GetSymbolLogs call has returned, and a is an earlier LogFundingRates call
\* that succeeded for the instrument and the day that was asked for
ReadAfterAppend(a) ==
    /\ ret.op = "GetSymbolLogs"
    /\ ret.fail = "none"
    /\ ret.date[1] # "bad"
    /\ a.symbol = ret.symbol
    /\ a.day = ret.date[2]
    /\ a.err = ErrNil

\* C3 as stated: after N LogFundingRates calls for an instrument, each with an
\* observation of provider P, GetHistoricalFundingRates for the instrument and
\* P returns N points, one per call, with the call's timestamp and P's metric.
C3_HistoryPerAppend ==
    LET as == AppendsFor(ret.symbol)
        ofP(a) == SelectSeq(a.rates, LAMBDA r : r.Exchange = ret.exchange)
    IN (/\ ret.op = "GetHistoricalFundingRates"
        /\ as # <<>>
        /\ \A i \in DOMAIN as : as[i].err = ErrNil /\ Len(ofP(as[i])) = 1)
       => /\ ret.err = ErrNil
          /\ Len(ret.val) = Len(as)
          /\ \A i \in DOMAIN as :
               \E j \in DOMAIN ret.val :
                 /\ ret.val[j].Timestamp = as[i].ts
                 /\ F6(ret.val[j].FundingRate) = F6(ofP(as[i])[1].FundingRate)

LineFields(line) ==
    [ts |-> line[2], symbol |-> line[7], exchange |-> line[12],
     rate |-> line[17], mark |-> line[22], index |-> line[27]]

LineShape(line) ==
    /\ Len(line) = 27
    /\ line[1] = "[" /\ ParseTime(<< line[2] >>).ok
    /\ SubSeq(line, 3, 6) = << "]", " ", "Symbol", ": " >>
    /\ SubSeq(line, 8, 11) = << ",", " ", "Exchange", ": " >>
    /\ SubSeq(line, 13, 16) = << ",", " ", "Funding Rate", ": " >>
    /\ SubSeq(line, 18, 21) = << ",", " ", "Mark Price", ": " >>
    /\ SubSeq(line, 23, 26) = << ",", " ", "Index Price", ": " >>

\* the fields the lines of the calls in as must show, call by call
RECURSIVE FieldsWritten(_)
FieldsWritten(as) ==
    IF as = <<>> THEN <<>>
    ELSE LET a == Head(as)
         IN [i \in 1..a.written |->
                [ts |-> TsStr(a.ts), symbol |-> a.symbol, exchange |-> a.rates[i].Exchange,
                 rate |-> F6(a.rates[i].FundingRate), mark |-> F2(a.rates[i].MarkPrice),
                 index |-> F2(a.rates[i].IndexPrice)]]
            \o FieldsWritten(Tail(as))

C6_AppendOnly ==
    [][\A p \in DOMAIN files : p \in DOMAIN files' /\ IsPrefixOf(files[p], files'[p])]_vars

\* a day-file written by two calls has been read by GetHistoricalFundingRates
C6_Witness ==
    /\ ret.op = "GetHistoricalFundingRates"
    /\ \E p \in DOMAIN files : p[1] = ret.symbol /\ Len(AppendsTo(p)) = 2

\* ---- the scheduler
\* C7: at most one LogAllFundingRates started by the scheduler is running at
\* any time; a tick that arrives while a round runs starts no second round.
C7_OneRoundAtATime ==
    /\ Cardinality(ActiveRounds) <= 1
    /\ schedPc = "select" => ActiveRounds = {}

\* the second round runs, after the first returned, and a tick is waiting
C7_Witness ==
    /\ started = 2
    /\ lastRound.id = 1
    /\ ActiveRounds = {2}
    /\ ticker = 1

\* ---- reading the log
\* a LogFundingRates call that got as far as opening its day-file
Opened(a) == a.err = ErrNil \/ a.err = ErrWrite \o a.symbol

\* the day-file a GetSymbolLogs call was asked for
AskedPath == Path(ret.symbol, DMY(ret.date[2]))

\* C13: GetSymbolLogs for an instrument and a day for which LogFundingRates
\* was never called returns ErrLogFileNotFound, and for a day-file that exists
\* it returns the content of the file, unchanged and without an error.
C13_ReadRaw ==
    (ret.op = "GetSymbolLogs" /\ ret.fail = "none" /\ ret.date[1] # "bad") =>
        /\ (\A i \in DOMAIN appendLog :
                ~(appendLog[i].symbol = ret.symbol /\ appendLog[i].day = ret.date[2]))
           => (ret.err = ErrLogFileNotFound /\ ret.val = <<>>)
        /\ AskedPath \in DOMAIN files
           => (ret.err = ErrNil /\ ret.val = files[AskedPath])

\* a day without a call was asked for, of an instrument that has a day-file
C13_Witness ==
    /\ ret.op = "GetSymbolLogs"
    /\ ret.fail = "none"
    /\ ret.date[1] = "dmy"
    /\ ret.err = ErrLogFileNotFound
    /\ \E i \in DOMAIN appendLog :
         /\ appendLog[i].symbol = ret.symbol
         /\ appendLog[i].err = ErrNil
         /\ appendLog[i].day # ret.date[2]

\* C14 as stated: GetSymbolLogs returns ErrLogFileNotFound only when the
\* day-file does not exist; a read that fails on a file that exists is
\* reported as another error.
C14_NotFoundOnlyIfAbsent ==
    (ret.op = "GetSymbolLogs" /\ ret.err = ErrLogFileNotFound) =>
        Path(ret.symbol, NormalizeDate(ret.date)) \notin DOMAIN files

\* C15: GetAllLogs returns one descriptor per day-file that a LogFundingRates
\* call opened, and no other; each carries the instrument and the day of its
\* file and the size the file has.
C15_Enumerate ==
    ret.op = "GetAllLogs" =>
        /\ ret.err = ErrNil
        /\ DOMAIN files = { Path(appendLog[i].symbol, DMY(appendLog[i].day)) :
                              i \in { j \in DOMAIN appendLog : Opened(appendLog[j]) } }
        /\ Len(ret.val) = Cardinality(DOMAIN files)
        /\ \A p \in DOMAIN files :
             Cardinality({ i \in DOMAIN ret.val :
                             ret.val[i].Symbol = p[1] /\ ret.val[i].Date = p[2] }) = 1
        /\ \A i \in DOMAIN ret.val :
             LET p == Path(ret.val[i].Symbol, ret.val[i].Date)
             IN p \in DOMAIN files /\ ret.val[i].Size = Len(files[p])

\* two instruments were written on one day, and the files were enumerated
C15_Witness ==
    /\ ret.op = "GetAllLogs"
    /\ Len(ret.val) = 2
    /\ ret.val[1].Symbol # ret.val[2].Symbol
    /\ ret.val[1].Date = ret.val[2].Date
    /\ ret.val[1].Size > 0

\* C18: for every day, GetSymbolLogs gives the same content or the same
\* error for the day written YYYY-MM-DD as for the day written DD-MM-YYYY.
C18_EitherForm ==
    /\ \A symbol \in Symbols, d \in Days, fail \in ReadModes :
         GetSymbolLogs(files, symbol, << "ymd", d >>, fail)
             = GetSymbolLogs(files, symbol, << "dmy", d >>, fail)
    /\ (ret.op = "GetSymbolLogs" /\ ret.date[1] = "ymd") =>
         [val |-> ret.val, err |-> ret.err]
             = GetSymbolLogs(files, ret.symbol, << "dmy", ret.date[2] >>, ret.fail)

\* a day-file with content was read by its day written YYYY-MM-DD
C18_Witness ==
    /\ ret.op = "GetSymbolLogs"
    /\ ret.date[1] = "ymd"
    /\ ret.err = ErrNil
    /\ ret.val # <<>>

\* ---- reconstructing the history
\* C11 as stated: GetHistoricalFundingRates for an instrument whose directory
\* does not exist returns an empty sequence and no error.
C11_MissingDirEmpty ==
    (ret.op = "GetHistoricalFundingRates" /\ ret.symbol \notin dirs) =>
        (ret.val = <<>> /\ ret.err = ErrNil)

IsNumber(text) == \E e \in NumTable6 : e[1] = text

\* a provider line of the block format that is whole and names a number as
\* the metric of the provider
WellFormedFor(line, exchange) ==
    /\ Len(line) = 20
    /\ SubSeq(line, 1, 4) = << " ", " ", "Exchange", ": " >>
    /\ line[5] = exchange
    /\ SubSeq(line, 6, 9) = << ",", " ", "Funding Rate", ": " >>
    /\ IsNumber(line[10])
    /\ SubSeq(line, 11, 14) = << ",", " ", "Mark Price", ": " >>
    /\ SubSeq(line, 16, 19) = << ",", " ", "Index Price", ": " >>

\* the metrics the well-formed lines of a provider name, in file order
RECURSIVE WellFormedRates(_, _)
WellFormedRates(lines, exchange) ==
    IF lines = <<>> THEN <<>>
    ELSE (IF WellFormedFor(Head(lines), exchange) THEN << Head(lines)[10] >> ELSE <<>>)
         \o WellFormedRates(Tail(lines), exchange)

\* C12 as stated: a line that does not parse (damaged, cut short, with an
\* unreadable metric, or of another provider) gives no point and never makes
\* GetHistoricalFundingRates fail; the points returned are those of the
\* well-formed lines of the provider asked for, one each, in file order.
C12_OnlyWellFormedLines ==
    (ret.op = "GetHistoricalFundingRates" /\ ret.symbol \in dirs) =>
        /\ ret.err = ErrNil
        /\ [i \in DOMAIN ret.val |-> F6(ret.val[i].FundingRate)]
             = WellFormedRates(Split(files[Path(ret.symbol, DMY(0))], "\n"), ret.exchange)

\* ---- a round whose LogFundingRates fails
\* the instruments among the rates a round collected
Collected(allRates) == { allRates[i].Symbol : i \in DOMAIN allRates }

\* C16: a LogFundingRates call that cannot create the directory, open the
\* file or write returns an error that names the instrument; the round goes on
\* to call LogFundingRates for every other instrument and returns no error.
C16_LogFailureNotFatal ==
    /\ \A i \in DOMAIN appendLog :
         appendLog[i].err # ErrNil =>
             appendLog[i].err \in { ErrMkdir \o appendLog[i].symbol,
                                    ErrOpen \o appendLog[i].symbol,
                                    ErrWrite \o appendLog[i].symbol }
    /\ \A c \in ActiveRounds :
         calls[c].phase = "log" =>
             calls[c].logTodo \cup { calls[c].logged[i].symbol : i \in DOMAIN calls[c].logged }
                 = Collected(calls[c].allRates)
    /\ lastRound.id # 0 =>
         /\ lastRound.err = ErrNil
         /\ { lastRound.logged[i].symbol : i \in DOMAIN lastRound.logged }
                = Collected(lastRound.allRates)
         /\ Len(lastRound.logged) = Cardinality(Collected(lastRound.allRates))

\* a round has returned whose first LogFundingRates call failed and whose
\* second call, for another instrument, wrote its lines
C16_Witness ==
    /\ lastRound.id # 0
    /\ Len(lastRound.logged) = 2
    /\ lastRound.logged[1].err # ErrNil
    /\ lastRound.logged[2].err = ErrNil
    /\ \E p \in DOMAIN files : p[1] = lastRound.logged[2].symbol /\ files[p] # <<>>

\* ---- calls that run side by side
\* the lines of a text are whole: each is a complete line of one of the
\* LogFundingRates calls, and the text ends with the end of a line
WholeLines(text) ==
    LET lines == Split(text, "\n")
    IN /\ lines[Len(lines)] = <<>>
       /\ \A k \in 1..(Len(lines) - 1) :
            /\ LineShape(lines[k])
            /\ \E w \in WriterIds : \E j \in DOMAIN writers[w].rates :
                 lines[k] \o << "\n" >>
                     = RateLine(writers[w].timestamp, writers[w].symbol, writers[w].rates[j])

\* C17: however two LogFundingRates calls on one day-file and a GetSymbolLogs
\* call interleave, every line of the file is one complete line of one of the
\* calls, and what the reader has read, and returns, holds complete lines only.
C17_WholeLines ==
    /\ \A p \in DOMAIN files : WholeLines(files[p])
    /\ WholeLines(reader.data)
    /\ ret.op = "GetSymbolLogs" => WholeLines(ret.val)

\* the lines of two calls alternate in one day-file, and a reader returned
\* the file as it was when only a part of the lines had been written
C17_Witness ==
    /\ ret.op = "GetSymbolLogs"
    /\ ret.err = ErrNil
    /\ ret.val # <<>>
    /\ \E p \in DOMAIN files :
         LET lines == Split(files[p], "\n")
         IN /\ p = Path(ret.symbol, NormalizeDate(ret.date))
            /\ Len(ret.val) < Len(files[p])
            /\ Len(lines) >= 4
            /\ writers[1].path = p /\ writers[2].path = p
            /\ writers[1].rates # writers[2].rates
            /\ lines[1] \o << "\n" >>
                 = RateLine(writers[1].timestamp, p[1], writers[1].rates[1])
            /\ lines[2] \o << "\n" >>
                 = RateLine(writers[2].timestamp, p[1], writers[2].rates[1])
            /\ lines[3] \o << "\n" >>
                 = RateLine(writers[1].timestamp, p[1], writers[1].rates[2])

\* ---- the timestamp of a line
\* C19 as stated: the timestamp LogFundingRates writes on the line of an
\* observation is the observation's instant of capture (its Timestamp), and
\* the point GetHistoricalFundingRates later makes of the line carries that
\* instant.
C19_CaptureInstant ==
    /\ \A i \in DOMAIN appendLog :
         \A j \in 1..appendLog[i].written :
             Contains(files[Path(appendLog[i].symbol, DMY(appendLog[i].day))],
                      RateLine(appendLog[i].rates[j].Timestamp, appendLog[i].symbol,
                               appendLog[i].rates[j]))
    /\ ret.op = "GetHistoricalFundingRates" =>
         \A i \in DOMAIN appendLog :
             \A j \in 1..appendLog[i].written :
                 (appendLog[i].symbol = ret.symbol /\ appendLog[i].rates[j].Exchange = ret.exchange)
                     => \E k \in DOMAIN ret.val :
                            ret.val[k].Timestamp = appendLog[i].rates[j].Timestamp

\* ---- what the sources return
NonEmptyNames(rates) ==
    \A i \in DOMAIN rates : rates[i].Symbol # "" /\ rates[i].Exchange # ""

\* C20 as stated: whatever the sources return, every observation that
\* GetAllFundingRates returns and every observation that a round writes to the
\* log has a non-empty instrument and a non-empty provider.
C20_NonEmptyNames ==
    /\ \A c \in ActiveRounds : calls[c].phase = "log" => NonEmptyNames(calls[c].allRates)
    /\ lastRound.id # 0 => NonEmptyNames(lastRound.allRates)
    /\ \A i \in DOMAIN appendLog :
         appendLog[i].symbol # "" /\ NonEmptyNames(appendLog[i].rates)

\* ---- every source fails
\* every registered source was called in the round and returned an error
AllFailed(call) ==
    /\ call.kind = "round"
    /\ call.cur = ""
    /\ DOMAIN call.got = Names
    /\ Succeeded(call.got) = {}

\* C21: when every registered source fails, GetAllFundingRates returns no
\* rates and no error, and the round returns no error, calls LogFundingRates
\* for no instrument and leaves the directories and the files as they were.
C21_AllSourcesFail ==
    /\ [](\A c \in ActiveRounds : AllFailed(calls[c]) => calls[c].allRates = <<>>)
    /\ []((lastRound.id # 0 /\ Succeeded(lastRound.got) = {}) =>
            /\ lastRound.allRates = <<>>
            /\ lastRound.err = ErrNil
            /\ lastRound.logged = <<>>)
    /\ [][\A c \in 1..MaxRounds :
            AllFailed(calls[c]) =>
                dirs' = dirs /\ files' = files /\ appendLog' = appendLog]_vars

\* the second round has returned with every source failed, after a first
\* round that wrote day-files
C21_Witness ==
    /\ lastRound.id = 2
    /\ Succeeded(lastRound.got) = {}
    /\ DOMAIN lastRound.got = Names
    /\ files # EmptyFn

\* ---- the delivery boundary
\* C22 as stated: only a fault the caller addressed is answered 404: a request
\* for a provider that is not registered, and a request for a day-file that
\* does not exist, are answered 404 and nothing else is; a request for a
\* registered provider whose fetch fails is answered 500, never with a success
\* that has no data.
C22_NotFoundOrServerError ==
    /\ ret.op = "FundingHandler.GetExchangeFunding" =>
         /\ ret.http.status = StatusNotFound <=> ret.arg \notin Names
         /\ (ret.arg \in Names /\ ret.resp.err # ErrNil)
                => ret.http.status = StatusInternalServerError
         /\ ret.http.status = StatusOK
                => (ret.resp.err = ErrNil /\ ret.http.body.rates = ret.resp.rates)
    /\ ret.op = "FundingHandler.GetSymbolLogs" =>
         (ret.http.status = StatusNotFound
            <=> Path(ret.symbol, NormalizeDate(ret.date)) \notin DOMAIN files)

\* the answers of the provider route alone: 404 exactly for a name that is not
\* registered, 500 for a registered provider whose fetch failed
C22_ProviderRoute ==
    ret.op = "FundingHandler.GetExchangeFunding" =>
        /\ ret.http.status = StatusNotFound <=> ret.arg \notin Names
        /\ (ret.arg \in Names /\ ret.resp.err # ErrNil)
               => ret.http.status = StatusInternalServerError

\* a registered provider was asked for by name and its fetch failed
C22_Witness ==
    /\ ret.op = "FundingHandler.GetExchangeFunding"
    /\ ret.arg \in Names
    /\ ret.resp.err # ErrNil
    /\ ret.invoked = << ret.arg >>

\* the number a value names once it is printed with the last digit d units
\* wide, in the units of the value
Rounded(v, d) == (IF v < 0 THEN -1 ELSE 1) * RoundDiv(v, d) * d

\* the entry the response must hold for an observation written by call a
EntryOf(a, rate) ==
    [k \in { << "timestamp" >>, << "Symbol" >>, << "Exchange" >>,
             << "Funding Rate" >>, << "Mark Price" >>, << "Index Price" >> } |->
        CASE k = << "timestamp" >> -> TextValue(<< TsStr(a.ts) >>)
          [] k = << "Symbol" >> -> TextValue(<< a.symbol >>)
          [] k = << "Exchange" >> -> TextValue(<< rate.Exchange >>)
          [] k = << "Funding Rate" >> -> NumberValue(Rounded(rate.FundingRate, 10))
          [] k = << "Mark Price" >> -> NumberValue(Rounded(rate.MarkPrice, 10) * 10000)
          [] k = << "Index Price" >> -> NumberValue(Rounded(rate.IndexPrice, 10) * 10000)]

RECURSIVE EntriesOf(_)
EntriesOf(as) ==
    IF as = <<>> THEN <<>>
    ELSE [i \in 1..Head(as).written |-> EntryOf(Head(as), Head(as).rates[i])]
         \o EntriesOf(Tail(as))

RECURSIVE LinesRead(_, _, _)
LinesRead(fs, symbol, days) ==
    IF days = <<>> THEN <<>>
    ELSE Split(fs[Path(symbol, DMY(Head(days)))], "\n") \o LinesRead(fs, symbol, Tail(days))

\* the timestamps of the points the lines must give: one for each line that
\* holds the provider, that of the last header line read before it or on it
RECURSIVE PointTimes(_, _, _)
PointTimes(lines, lastHeader, exchange) ==
    IF lines = <<>> THEN <<>>
    ELSE LET line == Head(lines)
             isHeader == HasPrefix(line, << "[" >>) /\ Contains(line, << "]", " ", "Symbol", ": " >>)
             ts == ParseTime(SubSeq(line, 2, Index(line, << "]" >>) - 1))
             cur == IF isHeader /\ ts.ok THEN ts.unix ELSE lastHeader
         IN (IF Contains(line, << "Exchange", ": ", exchange, "," >>) THEN << cur >> ELSE <<>>)
            \o PointTimes(Tail(lines), cur, exchange)

\* C23 as stated: every line that holds the provider asked for gives exactly
\* one point of the history, and the point carries the timestamp of the last
\* header line among all the lines the call has read so far.
C23_OnePointPerProviderLine ==
    (ret.op = "GetHistoricalFundingRates" /\ ret.err = ErrNil) =>
        [i \in DOMAIN ret.val |-> ret.val[i].Timestamp]
            = PointTimes(LinesRead(files, ret.symbol, SortedDays(DaysOf(files, ret.symbol))),
                         0, ret.exchange)

\* ---- one LogFundingRates call per instrument
\* the calls of a round handed on every observation once: each observation of
\* allRates is in the call of its instrument and in no other
HandedOnOnce(allRates, logged) ==
    \A i \in DOMAIN allRates :
        Cardinality({ j \in DOMAIN logged :
                        \E k \in DOMAIN logged[j].rates :
                            logged[j].rates[k] = allRates[i] }) = 1

\* C24: in a round in which no LogFundingRates call fails, LogFundingRates is
\* called exactly once for each instrument among the rates collected, with
\* the rates of that instrument and no other; every rate collected is handed
\* to exactly one call, and afterwards every instrument collected has a
\* day-file.
C24_OneAppendPerInstrument ==
    (lastRound.id # 0 /\ \A j \in DOMAIN lastRound.logged : lastRound.logged[j].err = ErrNil) =>
        /\ \A s \in Collected(lastRound.allRates) :
             /\ Cardinality({ j \in DOMAIN lastRound.logged : lastRound.logged[j].symbol = s }) = 1
             /\ \E p \in DOMAIN files : p[1] = s
        /\ \A j \in DOMAIN lastRound.logged :
             /\ lastRound.logged[j].symbol \in Collected(lastRound.allRates)
             /\ lastRound.logged[j].rates
                  = SelectSeq(lastRound.allRates, LAMBDA r : r.Symbol = lastRound.logged[j].symbol)
        /\ HandedOnOnce(lastRound.allRates, lastRound.logged)

\* a round without a failed call has returned that collected two instruments,
\* one of them with rates of two sources
C24_Witness ==
    /\ lastRound.id # 0
    /\ \A j \in DOMAIN lastRound.logged : lastRound.logged[j].err = ErrNil
    /\ Len(lastRound.logged) = 2
    /\ \E j \in DOMAIN lastRound.logged : Len(lastRound.logged[j].rates) = 2
    /\ Len(lastRound.allRates) = 3

\* ---- no retries
\* no element occurs twice in the sequence
NoRepeat(seq) == \A i, j \in DOMAIN seq : seq[i] = seq[j] => i = j

\* C25: in one GetAllFundingRates the GetFundingRates of every registered
\* source is called exactly once, whether it returns rates or an error; in
\* one round LogFundingRates is called at most once for an instrument, also
\* when the call fails.
C25_NoRetries ==
    /\ \A c \in CallIds :
         calls[c].kind \in {"collect", "round"} =>
             /\ NoRepeat(calls[c].invoked)
             /\ Range(calls[c].invoked) \subseteq Names
             /\ LoopDone(calls[c]) => Range(calls[c].invoked) = Names
             /\ NoRepeat([j \in DOMAIN calls[c].logged |-> calls[c].logged[j].symbol])
    /\ lastRound.id # 0 =>
         /\ NoRepeat(lastRound.invoked)
         /\ Range(lastRound.invoked) = Names
         /\ DOMAIN lastRound.got = Names
         /\ NoRepeat([j \in DOMAIN lastRound.logged |-> lastRound.logged[j].symbol])

\* a round has returned in which a source failed and a LogFundingRates call
\* failed
C25_Witness ==
    /\ lastRound.id # 0
    /\ \E n \in Names : lastRound.got[n].err # ErrNil
    /\ \E j \in DOMAIN lastRound.logged : lastRound.logged[j].err # ErrNil

\* ---- the provider of a rate
\* the rates of a sequence that carry the provider n
OfProvider(rates, n) == SelectSeq(rates, LAMBDA r : r.Exchange = n)

\* C26: for every registered name n whose source returned rates, the rates of
\* GetAllFundingRates that carry n are those GetExchangeFundingRates(n) gives
\* for the same answer of the source, with Exchange set to n, whatever name
\* the source reported; no rate of GetAllFundingRates carries an empty name or
\* a name that is not registered.
C26_StampedWithRegisteredName ==
    ret.op = "GetAllFundingRates" =>
        /\ \A n \in Succeeded(ret.got) :
             OfProvider(ret.val, n)
                 = [i \in DOMAIN ExchangeFundingRates(n, ret.got[n]).val |->
                       [ExchangeFundingRates(n, ret.got[n]).val[i] EXCEPT !.Exchange = n]]
        /\ \A i \in DOMAIN ret.val :
             ret.val[i].Exchange # "" /\ ret.val[i].Exchange \in Names

\* GetAllFundingRates has returned the rates of a source that reports another
\* name than the one it is registered under
C26_Witness ==
    /\ ret.op = "GetAllFundingRates"
    /\ \E n \in Succeeded(ret.got) :
         /\ ret.got[n].rates # <<>>
         /\ \A i \in DOMAIN ret.got[n].rates : ret.got[n].rates[i].Exchange # n
         /\ OfProvider(ret.val, n) # <<>>

\* ---- the day of a line
\* the lines of a text, without what follows its last newline
LinesOf(text) == LET lines == Split(text, "\n") IN SubSeq(lines, 1, Len(lines) - 1)

\* C27 as stated: every line LogFundingRates writes into a day-file carries a
\* timestamp of the day the file is named after, also when midnight passes
\* while the call runs.
C27_LineDayIsFileDay ==
    \A p \in DOMAIN files :
        \A k \in DOMAIN LinesOf(files[p]) :
            LET line == LinesOf(files[p])[k]
            IN /\ LineShape(line)
               /\ DMY(DayOf(ParseTime(<< line[2] >>).unix)) = p[2]

ContentOf(fs, path) == IF path \in DOMAIN fs THEN fs[path] ELSE <<>>

\* the call that a step has added to appendLog failed in WriteString
WriteFailed(before, after) ==
    /\ Len(after) = Len(before) + 1
    /\ after[Len(after)].err = ErrWrite \o after[Len(after)].symbol

\* C29: when the WriteString of a line fails, LogFundingRates returns an
\* error and writes no further line; the lines it wrote before, fewer than it
\* was given, stay in the day-file after the content the file had, which is
\* unchanged, and no other file changes.
C29_PartialAppend ==
    [][WriteFailed(appendLog, appendLog') =>
          LET a == appendLog'[Len(appendLog')]
              path == Path(a.symbol, DMY(a.day))
          IN /\ a.written < Len(a.rates)
             /\ files'[path] = ContentOf(files, path)
                                 \o RateLines(a.ts, a.symbol, SubSeq(a.rates, 1, a.written))
             /\ \A q \in DOMAIN files' \ {path} : q \in DOMAIN files /\ files'[q] = files[q]
             /\ ret'.op = "LogFundingRates" => ret'.err # ErrNil]_vars

\* the write of the second line of a call failed on a day-file that had
\* content: the file holds that content and the first line of the call
C29_Witness ==
    \E i \in DOMAIN appendLog :
        LET a == appendLog[i]
        IN /\ i > 1
           /\ a.err = ErrWrite \o a.symbol
           /\ a.written = 1
           /\ appendLog[i - 1].symbol = a.symbol /\ appendLog[i - 1].day = a.day
           /\ appendLog[i - 1].written > 0
           /\ Len(LinesOf(files[Path(a.symbol, DMY(a.day))])) = appendLog[i - 1].written + 1

====
